---------------------------- MODULE Spec2Model ----------------------------
(***************************************************************************)
(* A model of src/src/cloudant/index.py: the option translator             *)
(* python_to_couch and the Index class (key lookup, slicing, paged lazy    *)
(* iteration) over a fetch callable (_ref).                                *)
(*                                                                         *)
(* Python values are records [kind, val]; kind is the concrete Python 2    *)
(* type of the value (type(v)), val its payload.  An option mapping (a     *)
(* dict / **kwargs) is a function from option names to values.             *)
(***************************************************************************)
EXTENDS Integers, Sequences, FiniteSets, TLC

VARIABLES
    options,     \* Index.options: the fixed options (page_size popped)
    page_size,   \* Index._page_size
    ref,         \* Index._ref: which fetch callable the Index is bound to
    gen,         \* the generator activations of Index.__iter__
    lookup,      \* the outcome of the latest Index.__getitem__ call
    xlate,       \* the outcome of the latest python_to_couch call
    sessions     \* the with-statements over cloudant() / couchdb() run so far

vars == <<options, page_size, ref, gen, lookup, xlate, sessions>>

(***************************************************************************)
(* Bounds of the model.                                                    *)
(***************************************************************************)
MaxRows == 4        \* an honest backend holds 0..MaxRows rows
MaxPageSize == 3    \* page_size given at construction ranges over 0..MaxPageSize
MaxScript == 4      \* a scripted backend answers MaxScript pages, then empty ones

(***************************************************************************)
(* Python values.                                                          *)
(***************************************************************************)
NoneV == [kind |-> "none", val |-> 0]
BoolV(b) == [kind |-> "bool", val |-> b]
IntV(n) == [kind |-> "int", val |-> n]
LongV(n) == [kind |-> "long", val |-> n]
FloatV(n) == [kind |-> "float", val |-> n]
StrV(s) == [kind |-> "str", val |-> s]
UnicodeV(s) == [kind |-> "unicode", val |-> s]
ListV(q) == [kind |-> "list", val |-> q]
TupleV(q) == [kind |-> "tuple", val |-> q]
XrangeV(n) == [kind |-> "xrange", val |-> n]
SliceV(a, b) == [kind |-> "slice", val |-> <<a, b>>]

\* isinstance(v, cls) for the classes index.py tests against.  In Python 2
\* bool is a subclass of int, long is not; str, unicode, list, tuple and
\* xrange are all registered as collections.Sequence.
IsInstance(v, cls) ==
    CASE cls = "bool" -> v.kind = "bool"
      [] cls = "int" -> v.kind \in {"int", "bool"}
      [] cls = "basestring" -> v.kind \in {"str", "unicode"}
      [] cls = "Sequence" -> v.kind \in {"str", "unicode", "list", "tuple", "xrange"}
      [] cls = "NoneType" -> v.kind = "none"
      [] cls = "list" -> v.kind = "list"
      [] cls = "slice" -> v.kind = "slice"
      [] OTHER -> FALSE

IsInstanceAny(v, classes) == \E cls \in classes : IsInstance(v, cls)

(***************************************************************************)
(* ARG_TYPES: the option catalog, name -> accepted classes.                *)
(***************************************************************************)
ARG_TYPES ==
    [descending |-> {"bool"},
     endkey |-> {"basestring", "Sequence"},
     endkey_docid |-> {"basestring"},
     group |-> {"bool"},
     group_level |-> {"basestring"},
     include_docs |-> {"bool"},
     inclusive_end |-> {"bool"},
     key |-> {"int", "basestring", "Sequence"},
     limit |-> {"int", "NoneType"},
     reduce |-> {"bool"},
     skip |-> {"int", "NoneType"},
     stale |-> {"basestring"},
     startkey |-> {"basestring", "Sequence"},
     startkey_docid |-> {"basestring"}]

(***************************************************************************)
(* json.dumps on the values the converters meet.                           *)
(***************************************************************************)
Quote(s) == "\"" \o s \o "\""

RECURSIVE JoinQuoted(_)
JoinQuoted(q) ==
    IF q = <<>> THEN ""
    ELSE IF Len(q) = 1 THEN Quote(q[1])
    ELSE Quote(q[1]) \o ", " \o JoinQuoted(Tail(q))

JsonArray(q) == "[" \o JoinQuoted(q) \o "]"

\* an element json.dumps cannot serialise (an arbitrary object in a list)
Unserializable == "<object>"

\* TYPE_CONVERTERS.get(type(v)): the lookup is by the concrete type, so the
\* basestring and Sequence entries are never selected; a type with no entry
\* yields None.
HasConverter(v) == v.kind \in {"str", "unicode", "list", "tuple", "int", "bool", "none"}

\* the exception arg_converter(v) raises, "" when it returns: calling None
\* raises TypeError, and so does json.dumps on an element it cannot serialise
ConversionCause(v) ==
    IF ~HasConverter(v) THEN "'NoneType' object is not callable"
    ELSE IF v.kind \in {"list", "tuple"} /\ \E j \in DOMAIN v.val : v.val[j] = Unserializable
    THEN "<object> is not JSON serializable"
    ELSE ""

ConvertBoolNative(v) == v

\* the bool converter (line 41)
ConvertBool(v) == StrV(IF v.val THEN "true" ELSE "false")

\* TYPE_CONVERTERS[type(v)](v)
Convert(v) ==
    CASE v.kind \in {"str", "unicode"} -> StrV(Quote(v.val))
      [] v.kind \in {"list", "tuple"} -> StrV(JsonArray(v.val))
      [] v.kind = "int" -> v
      [] v.kind = "bool" -> ConvertBool(v)
      [] OTHER -> v

(***************************************************************************)
(* python_to_couch.  The loop visits the entries in the dict's iteration   *)
(* order, which the program does not fix, and raises at the first entry    *)
(* that fails: the outcomes are those of every order.  An outcome is       *)
(*   ok       - whether the function returned                             *)
(*   result   - the mapping returned (empty when it raised)                *)
(*   exc, site, key, value, expected, cause - the exception raised, the    *)
(*              raise site and what its message names                      *)
(*   partial  - the local result when the function ended                   *)
(***************************************************************************)
StaleValuesOkOnly == {"ok"}

\* line 66
StaleValues == {"ok", "update_after"}

\* the raise site an entry (k, v) runs into, "" when it converts
EntryFailure(k, v) ==
    IF k \notin DOMAIN ARG_TYPES THEN "invalid_argument"
    ELSE IF ~IsInstanceAny(v, ARG_TYPES[k]) THEN "not_instance"
    ELSE IF k = "stale" /\ v.val \notin StaleValues THEN "invalid_stale"
    ELSE IF v.kind # "none" /\ ConversionCause(v) # "" THEN "error_converting"
    ELSE ""

NoError ==
    [exc |-> "", site |-> "", key |-> "", value |-> "", expected |-> {}, cause |-> ""]

InvalidArgumentUnnamed(k) ==
    [NoError EXCEPT !.exc = "CloudantArgumentError", !.site = "invalid_argument"]

\* lines 55-57
InvalidArgument(k) ==
    [NoError EXCEPT !.exc = "CloudantArgumentError", !.site = "invalid_argument", !.key = k]

\* lines 58-63
NotInstance(k) ==
    [NoError EXCEPT !.exc = "CloudantArgumentError", !.site = "not_instance", !.key = k,
                    !.expected = ARG_TYPES[k]]

\* lines 65-71: the message names the value
InvalidStale(v) ==
    [NoError EXCEPT !.exc = "CloudantArgumentError", !.site = "invalid_stale",
                    !.value = v.val]

ConversionErrorRaw(k, cause) ==
    [NoError EXCEPT !.exc = "TypeError", !.cause = cause]

\* lines 77-79: whatever the converter raised is raised again as
\* CloudantArgumentError, with the key and the text of the cause
ConversionError(k, cause) ==
    [NoError EXCEPT !.exc = "CloudantArgumentError", !.site = "error_converting",
                    !.key = k, !.cause = cause]

EntryError(k, v) ==
    CASE EntryFailure(k, v) = "invalid_argument" -> InvalidArgument(k)
      [] EntryFailure(k, v) = "not_instance" -> NotInstance(k)
      [] EntryFailure(k, v) = "invalid_stale" -> InvalidStale(v)
      [] OTHER -> ConversionError(k, ConversionCause(v))

\* lines 73-76
WireValue(v) == IF v.kind = "none" THEN NoneV ELSE Convert(v)

StoreAlone(result, k, w) == [n \in {k} |-> w]

\* result[k] = ... (lines 74, 76)
Store(result, k, w) == [n \in DOMAIN result \cup {k} |-> IF n = k THEN w ELSE result[n]]

RECURSIVE Orders(_)
Orders(names) ==
    IF names = {} THEN {<<>>}
    ELSE UNION {{<<k>> \o q : q \in Orders(names \ {k})} : k \in names}

\* the loop of lines 54-79 over the entries in the given order
RECURSIVE TranslateInOrder(_, _, _)
TranslateInOrder(opts, order, result) ==
    IF order = <<>>
    THEN [ok |-> TRUE, result |-> result, error |-> NoError, partial |-> result]
    ELSE LET k == Head(order)
         IN  IF EntryFailure(k, opts[k]) # ""
             THEN [ok |-> FALSE, result |-> <<>>, error |-> EntryError(k, opts[k]),
                   partial |-> result]
             ELSE TranslateInOrder(opts, Tail(order), Store(result, k, WireValue(opts[k])))

python_to_couch(opts) ==
    {TranslateInOrder(opts, order, <<>>) : order \in Orders(DOMAIN opts)}

NoTranslation ==
    [state |-> "idle", input |-> <<>>,
     out |-> [ok |-> TRUE, result |-> <<>>, error |-> NoError, partial |-> <<>>]]

\* type_or_none(typerefs, value)
type_or_none(typerefs, value) ==
    IsInstanceAny(value, typerefs) \/ value.kind = "none"


(***************************************************************************)
(* Option mappings (dicts, **kwargs).                                       *)
(***************************************************************************)
EmptyDict == [n \in {} |-> NoneV]

DictUnion(a, b) ==
    [n \in DOMAIN a \cup DOMAIN b |-> IF n \in DOMAIN a THEN a[n] ELSE b[n]]

DictWithout(d, name) == [n \in DOMAIN d \ {name} |-> d[n]]

(***************************************************************************)
(* The fetch callable (method_ref), an external collaborator.  Three kinds *)
(* are modelled:                                                           *)
(*   honest   - holds rows 1..total and honours skip and limit;            *)
(*   scripted - answers the k-th page of a request (k = skip \div limit)   *)
(*              with as many rows as its script says (never more than     *)
(*              limit), and empty pages after the script's end.           *)
(*   endless  - answers every request with one row, never an empty page.   *)
(* A backend with norows set reports an empty page as a response without   *)
(* a 'rows' field.  Row r of the result set is the integer r.              *)
(***************************************************************************)
Min(a, b) == IF a < b THEN a ELSE b

Window(first, n) == [j \in 1..(IF n > 0 THEN n ELSE 0) |-> first + j]

Page(rows, norows) == [hasRows |-> ~(norows /\ rows = <<>>), rows |-> rows]

IntOption(req, name, default) ==
    IF name \in DOMAIN req /\ req[name].kind = "int"
    THEN req[name].val
    ELSE default

Fetch(r, req) ==
    LET skip == IntOption(req, "skip", 0)
    IN  IF r.kind = "honest"
        THEN LET limit == IntOption(req, "limit", r.total)
             IN  Page(Window(skip, Min(limit, r.total - skip)), r.norows)
        ELSE IF r.kind = "endless"
        THEN Page(Window(skip, 1), FALSE)
        ELSE LET limit == IntOption(req, "limit", MaxPageSize)
                 k == IF limit > 0 /\ skip >= 0 THEN (skip \div limit) + 1 ELSE 1
                 size == IF k \in 1..Len(r.script) THEN Min(r.script[k], limit) ELSE 0
             IN  Page(Window(skip, size), r.norows)

(***************************************************************************)
(* Index.__init__(method_ref, **options)                                   *)
(***************************************************************************)
DefaultPageSize == 100

IndexOptionsKeep(kwargs) == kwargs

IndexOptions(kwargs) == DictWithout(kwargs, "page_size")

IndexPageSize(kwargs) ==
    IF "page_size" \in DOMAIN kwargs THEN kwargs["page_size"] ELSE IntV(DefaultPageSize)

(***************************************************************************)
(* A call of self._ref with keywords kw and the unpacked self.options.     *)
(* Python raises TypeError at the call site, before the callable runs,     *)
(* when a keyword is given twice.                                          *)
(***************************************************************************)
DuplicateKeywordNever(kw, opts) == FALSE

DuplicateKeyword(kw, opts) == DOMAIN kw \cap DOMAIN opts # {}

CallKeywordsOnly(kw, opts) == kw

\* the keywords the callable receives
CallKeywords(kw, opts) == DictUnion(kw, opts)

(***************************************************************************)
(* Index.__iter__: a generator.  An activation (one call of __iter__) is a *)
(* record of its frame and of what an observer saw of it:                  *)
(*   pc      - "none" (no activation in this slot), "created" (the body    *)
(*             has not started), "suspended" (at the yield), "done" (the   *)
(*             loop broke), "raised", "closed" (the consumer dropped it)   *)
(*   skip, result, pos - the locals skip and result, and how many rows of  *)
(*             result the for loop has yielded                             *)
(*   yielded - the rows handed to the consumer so far                      *)
(*   calls   - the calls of self._ref made so far: request and rows        *)
(***************************************************************************)
\* the slots for activations: two iterations may be live at once
Iters == {1, 2}

NoActivation ==
    [pc |-> "none", skip |-> 0, result |-> <<>>, pos |-> 0,
     yielded |-> <<>>, calls |-> <<>>, exc |-> ""]

NewActivation == [NoActivation EXCEPT !.pc = "created"]

ConflictingSkipOnly(opts) == "skip" \in DOMAIN opts

\* the guards of lines 228-233
ConflictingOption(opts) == "skip" \in DOMAIN opts \/ "limit" \in DOMAIN opts

\* the keywords of the call at lines 237-241
PageRequest(opts, ps, skip) ==
    CallKeywords([limit |-> ps, skip |-> IntV(skip)], opts)

\* response.get('rows', [])
RowsOf(response) == IF response.hasRows THEN response.rows ELSE <<>>

NextSkipByOne(skip, ps) == skip + 1

NextSkipStuck(skip, ps) == skip

\* skip = skip + self._page_size
NextSkip(skip, ps) == skip + ps.val

PageExhaustedEarly(g) == g.pos + 1 >= Len(g.result)

\* the for loop over result has no element left
PageExhausted(g) == g.pos >= Len(g.result)

NextRowFromEnd(g) == g.result[Len(g.result) - g.pos]

\* the element the for loop over result yields next
NextRow(g) == g.result[g.pos + 1]

\* one turn of the while loop, up to its first yield or its break
FetchPage(g, opts, ps, r) ==
    LET req == PageRequest(opts, ps, g.skip)
        response == Fetch(r, req)
        called == [g EXCEPT !.calls = Append(@, [req |-> req, rows |-> response.rows]),
                            !.skip = NextSkip(g.skip, ps),
                            !.result = RowsOf(response),
                            !.pos = 0]
    IN  IF Len(called.result) > 0
        THEN [called EXCEPT !.pc = "suspended", !.pos = 1,
                            !.yielded = Append(@, NextRow(called))]
        ELSE [called EXCEPT !.pc = "done"]

\* next() on the generator: run the body from where it stands to the next
\* yield, to the break or to a raise
Resume(g, opts, ps, r) ==
    IF g.pc = "created"
    THEN IF ConflictingOption(opts)
         THEN [g EXCEPT !.pc = "raised", !.exc = "CloudantArgumentError"]
         ELSE FetchPage([g EXCEPT !.skip = 0], opts, ps, r)
    ELSE IF ~PageExhausted(g)
         THEN [g EXCEPT !.pos = @ + 1, !.yielded = Append(@, NextRow(g))]
         ELSE FetchPage([g EXCEPT !.result = <<>>, !.pos = 0], opts, ps, r)

OptionsOfLastCall(opts, calls) ==
    IF calls = <<>> THEN opts ELSE calls[Len(calls)].req

\* self.options once the calls made so far have returned: **self.options
\* hands each call a new dict of keywords, never the dict itself
OptionsAfter(opts, calls) == opts

SharedFrame(g, i) == [g[i] EXCEPT !.skip = g[1].skip]

\* the frame activation i runs on: its own locals
Frame(g, i) == g[i]

\* iter(index): a new activation; nothing of the body runs yet
Iter(i) ==
    /\ gen[i].pc \in {"none", "done", "raised", "closed"}
    /\ gen' = [gen EXCEPT ![i] = NewActivation]
    /\ UNCHANGED <<options, page_size, ref, lookup, xlate, sessions>>

\* the consumer pulls the next row
Pull(i) ==
    /\ gen[i].pc \in {"created", "suspended"}
    /\ gen' = [gen EXCEPT ![i] = Resume(Frame(gen, i), options, page_size, ref)]
    /\ options' = OptionsAfter(options, gen'[i].calls)
    /\ UNCHANGED <<page_size, ref, lookup, xlate, sessions>>

\* the consumer stops pulling (break, or the generator is dropped)
Abandon(i) ==
    /\ gen[i].pc \in {"created", "suspended"}
    /\ gen' = [gen EXCEPT ![i].pc = "closed"]
    /\ UNCHANGED <<options, page_size, ref, lookup, xlate, sessions>>

(***************************************************************************)
(* Construction.                                                           *)
(***************************************************************************)
PageSizeArgs == {EmptyDict} \cup {[page_size |-> IntV(n)] : n \in 0..MaxPageSize}

ScriptSizes == {0, 1, MaxPageSize}

\* pages of 100, 100, 37 and 0 rows
ExampleScript == <<100, 100, 37, 0>>

Backends ==
    {[kind |-> "honest", total |-> n, script |-> <<>>, norows |-> b] :
        n \in 0..MaxRows, b \in BOOLEAN}
    \cup
    {[kind |-> "scripted", total |-> 0, script |-> q, norows |-> b] :
        q \in [1..MaxScript -> ScriptSizes], b \in BOOLEAN}
    \cup
    {[kind |-> "scripted", total |-> 0, script |-> ExampleScript, norows |-> FALSE]}

NoLookup == [state |-> "idle", key |-> NoneV, exc |-> "", calls |-> <<>>, ret |-> <<>>]

Construct(kwargs, r) ==
    /\ options = IndexOptions(kwargs)
    /\ page_size = IndexPageSize(kwargs)
    /\ ref = r
    /\ gen = [i \in Iters |-> NoActivation]
    /\ lookup = NoLookup
    /\ xlate = NoTranslation
    /\ sessions = <<>>

IterOptionSets ==
    {EmptyDict,
     [include_docs |-> BoolV(TRUE)],
     [skip |-> IntV(5)],
     [limit |-> NoneV]}

InitIter ==
    \E fixed \in IterOptionSets, psarg \in PageSizeArgs, r \in Backends :
        Construct(DictUnion(fixed, psarg), r)

NextIter ==
    \/ \E i \in Iters : Iter(i)
    \/ \E i \in Iters : Pull(i)
    \/ \E i \in Iters : Abandon(i)

SpecIter == InitIter /\ [][NextIter]_vars

(***************************************************************************)
(* Properties of lazy iteration.                                           *)
(***************************************************************************)
RECURSIVE ConcatRows(_)
ConcatRows(calls) ==
    IF calls = <<>> THEN <<>>
    ELSE ConcatRows(SubSeq(calls, 1, Len(calls) - 1)) \o calls[Len(calls)].rows

Ceil(a, b) == (a + b - 1) \div b

\* C1: what an activation has yielded is exactly the rows of the pages it
\* fetched, in the order fetched and in each page's order, up to the row the
\* consumer has reached; no page before the last fetched one is empty, a
\* non-empty page (however short) keeps the iteration alive, and the
\* iteration is over exactly when the last fetched page is empty, so that a
\* finished iteration has yielded all rows of all fetched pages.  For pages
\* of 100, 100, 37 and 0 rows it yields 237 rows in 4 fetches.
Thm_C1_YieldsFetchedPagesInOrder ==
    \A i \in Iters :
        LET g == gen[i]
            n == Len(g.calls)
        IN  /\ g.yielded =
                   IF n = 0 THEN <<>>
                   ELSE ConcatRows(SubSeq(g.calls, 1, n - 1))
                            \o SubSeq(g.calls[n].rows, 1, g.pos)
            /\ \A k \in 1..(n - 1) : g.calls[k].rows # <<>>
            /\ g.pc = "suspended" => n >= 1 /\ g.calls[n].rows # <<>>
            /\ g.pc = "done" =>
                   /\ n >= 1
                   /\ g.calls[n].rows = <<>>
                   /\ g.yielded = ConcatRows(g.calls)
            /\ (/\ g.pc = "done"
                /\ ref.kind = "scripted"
                /\ ref.script = ExampleScript
                /\ page_size.val = 100) =>
                   /\ Len(g.yielded) = 237
                   /\ n = 4
                   /\ g.yielded = Window(0, 100) \o Window(100, 100) \o Window(200, 37)

Wit_C1_ExamplePagesConsumed ==
    \E i \in Iters :
        /\ gen[i].pc = "done"
        /\ ref.script = ExampleScript
        /\ page_size.val = 100
        /\ Len(gen[i].calls) = 4
        /\ Len(gen[i].calls[3].rows) = 37
        /\ Len(gen[i].yielded) = 237

\* C2: a step fetches for an activation only if the activation was live
\* (created or suspended at the yield) and had yielded every row of the page
\* it held; it fetches one page, and the consumer that pulled gets the
\* first row of that page or the end of the iteration.  An activation whose
\* body has not been pulled has fetched nothing, a closed one fetches no
\* more, and the rows an activation holds are those of its last fetched
\* page at most.
FetchesOnDemand(i) ==
    LET g == gen[i]
        h == gen'[i]
    IN  /\ h.pc = "created" => h.calls = <<>>
        /\ Len(h.calls) > Len(g.calls) =>
               /\ Len(h.calls) = Len(g.calls) + 1
               /\ g.pc \in {"created", "suspended"}
               /\ g.pos = Len(g.result)
               /\ \/ h.pc = "suspended" /\ h.yielded = Append(g.yielded, h.result[1])
                  \/ h.pc = "done" /\ h.yielded = g.yielded
        /\ g.pc = "closed" /\ h.pc = "closed" => h.calls = g.calls
        /\ h.result = IF h.calls = <<>> THEN <<>> ELSE h.calls[Len(h.calls)].rows

Thm_C2_FetchOnlyOnPullOfExhaustedPage ==
    [][\A i \in Iters : FetchesOnDemand(i)]_vars

Wit_C2_AbandonedMidPage ==
    \E i \in Iters :
        /\ gen[i].pc = "closed"
        /\ Len(gen[i].calls) = 2
        /\ gen[i].pos < Len(gen[i].result)

\* C3: every activation pages with a counter of its own: its k-th request
\* carries skip = (k - 1) * page_size whatever the other activation did, and
\* against a backend that honours skip and limit a finished activation has
\* seen the whole result set, rows 1..total in order.
Thm_C3_IndependentSkipCounters ==
    \A i \in Iters :
        LET g == gen[i]
        IN  /\ \A k \in 1..Len(g.calls) :
                   g.calls[k].req["skip"] = IntV((k - 1) * page_size.val)
            /\ g.pc \in {"suspended", "done"} =>
                   g.skip = Len(g.calls) * page_size.val
            /\ (g.pc = "done" /\ ref.kind = "honest" /\ page_size.val >= 1) =>
                   g.yielded = Window(0, ref.total)

Wit_C3_InterleavedIterations ==
    /\ ref.kind = "honest"
    /\ ref.total = MaxRows
    /\ page_size.val = 1
    /\ gen[1].pc = "done"
    /\ gen[2].pc = "suspended"
    /\ Len(gen[2].calls) = 2
    /\ Len(gen[1].calls) = MaxRows + 1

\* C4: with skip or limit among the fixed options no activation ever
\* fetches or yields; a pulled activation has raised CloudantArgumentError.
Thm_C4_ConflictingOptionBeforeFetch ==
    ({"skip", "limit"} \cap DOMAIN options # {}) =>
        \A i \in Iters :
            /\ gen[i].pc \in {"none", "created", "raised", "closed"}
            /\ gen[i].pc = "raised" => gen[i].exc = "CloudantArgumentError"
            /\ gen[i].calls = <<>>
            /\ gen[i].yielded = <<>>

Wit_C4_LimitNoneRaised ==
    /\ "limit" \in DOMAIN options
    /\ options["limit"] = NoneV
    /\ gen[1].pc = "raised"

\* C5 as stated: a finished iteration against a backend honouring skip and
\* limit made ceil(total_rows / page_size) fetches.
CE_C5_CeilFetches ==
    \A i \in Iters :
        (gen[i].pc = "done" /\ ref.kind = "honest" /\ page_size.val >= 1) =>
            Len(gen[i].calls) = Ceil(ref.total, page_size.val)

\* C5 amended: a finished iteration against a backend honouring skip and
\* limit made ceil(total_rows / page_size) + 1 fetches: one per non-empty
\* page and the trailing one that returns no row.
Thm_C5_CeilPlusOneFetches ==
    \A i \in Iters :
        (gen[i].pc = "done" /\ ref.kind = "honest" /\ page_size.val >= 1) =>
            Len(gen[i].calls) = Ceil(ref.total, page_size.val) + 1

Wit_C5_ShortLastPage ==
    \E i \in Iters :
        /\ gen[i].pc = "done"
        /\ ref.kind = "honest"
        /\ ref.total = 3
        /\ page_size.val = 2
        /\ Len(gen[i].calls) = 3

(***************************************************************************)
(* Index.__getitem__(key).  The keywords the method adds to the fixed      *)
(* options, or no interpretation of the key at all (lines 209-213).        *)
(***************************************************************************)
Interpreted(kw) == [interpreted |-> TRUE, kw |-> kw]

NotInterpreted == [interpreted |-> FALSE, kw |-> EmptyDict]

Present(name, v) == IF v.kind = "none" THEN EmptyDict ELSE [n \in {name} |-> v]

KeyKeywordsLimited(key) == Interpreted([key |-> key, limit |-> IntV(1)])

\* lines 165-171
KeyKeywords(key) == Interpreted([n \in {"key"} |-> key])

KeyRangeKeywordsBoth(start, stop) == Interpreted([startkey |-> start, endkey |-> stop])

\* lines 178-191: a slice of strings or lists
KeyRangeKeywords(start, stop) ==
    Interpreted(DictUnion(Present("startkey", start), Present("endkey", stop)))

\* the number an int or a bool is in arithmetic
AsInt(v) == IF v.kind = "bool" THEN (IF v.val THEN 1 ELSE 0) ELSE v.val

WindowKeywordsLimitStop(start, stop) ==
    Interpreted(DictUnion(Present("skip", start), Present("limit", stop)))

\* lines 195-208: a slice of integers
WindowKeywords(start, stop) ==
    IF start.kind # "none" /\ stop.kind # "none"
    THEN Interpreted([skip |-> start, limit |-> IntV(AsInt(stop) - AsInt(start))])
    ELSE Interpreted(DictUnion(Present("skip", start), Present("limit", stop)))

\* the classes a key-range bound may have (line 175) and a key may have
\* besides basestring (line 169)
KeyRangeTypes == {"basestring", "list"}

WindowTypes == {"int"}

SliceKeywordsByStart(start, stop) ==
    IF type_or_none(KeyRangeTypes, start)
    THEN KeyRangeKeywords(start, stop)
    ELSE IF type_or_none(WindowTypes, start) /\ type_or_none(WindowTypes, stop)
    THEN WindowKeywords(start, stop)
    ELSE NotInterpreted

\* lines 173-208
SliceKeywords(start, stop) ==
    IF type_or_none(KeyRangeTypes, start) /\ type_or_none(KeyRangeTypes, stop)
    THEN KeyRangeKeywords(start, stop)
    ELSE IF type_or_none(WindowTypes, start) /\ type_or_none(WindowTypes, stop)
    THEN WindowKeywords(start, stop)
    ELSE NotInterpreted

IsKey(key) == IsInstance(key, "basestring") \/ IsInstance(key, "list")

GetItemKeywords(key) ==
    IF IsKey(key) THEN KeyKeywords(key)
    ELSE IF IsInstance(key, "slice") THEN SliceKeywords(key.val[1], key.val[2])
    ELSE NotInterpreted

\* data['rows']
ReturnedRows(response) == response.rows

\* the whole of __getitem__: what it raised or returned, and the calls of
\* self._ref it made
GetItemOutcome(key, opts, r) ==
    LET how == GetItemKeywords(key)
        base == [NoLookup EXCEPT !.key = key]
    IN  IF ~how.interpreted
        THEN [base EXCEPT !.state = "raised", !.exc = "CloudantArgumentError"]
        ELSE IF DuplicateKeyword(how.kw, opts)
        THEN [base EXCEPT !.state = "raised", !.exc = "TypeError"]
        ELSE LET req == CallKeywords(how.kw, opts)
                 response == Fetch(r, req)
                 called == [base EXCEPT !.calls = <<[req |-> req, rows |-> response.rows]>>]
             IN  IF response.hasRows
                 THEN [called EXCEPT !.state = "returned", !.ret = ReturnedRows(response)]
                 ELSE [called EXCEPT !.state = "raised", !.exc = "KeyError"]

(***************************************************************************)
(* The keys tried on the Index.                                            *)
(***************************************************************************)
ScalarKeys ==
    {StrV("2013"), UnicodeV("2014"), ListV(<<"2013", "10">>), TupleV(<<"2013", "11">>),
     IntV(7), BoolV(TRUE), FloatV(1), LongV(1), NoneV}

Bounds ==
    {NoneV, StrV("2013"), StrV("2014"), ListV(<<"2013", "10">>), TupleV(<<"2013", "11">>),
     BoolV(TRUE), FloatV(1), LongV(1)}
    \cup {IntV(n) : n \in 0..MaxRows}

Keys == ScalarKeys \cup {SliceV(a, b) : a \in Bounds, b \in Bounds}

\* index[key]
GetItem(key) ==
    /\ lookup.state = "idle"
    /\ lookup' = GetItemOutcome(key, options, ref)
    /\ options' = OptionsAfter(options, lookup'.calls)
    /\ UNCHANGED <<page_size, ref, gen, xlate, sessions>>

\* the caller is through with what index[key] returned or raised
Forget ==
    /\ lookup.state # "idle"
    /\ lookup' = NoLookup
    /\ UNCHANGED <<options, page_size, ref, gen, xlate, sessions>>

LookupOptionSets ==
    {EmptyDict,
     [include_docs |-> BoolV(TRUE)],
     [include_docs |-> BoolV(TRUE), descending |-> BoolV(FALSE)],
     [key |-> StrV("2012")],
     [startkey |-> StrV("2012")],
     [endkey |-> ListV(<<"2015">>)],
     [skip |-> IntV(1)],
     [limit |-> IntV(2)],
     [stale |-> StrV("nope")],
     [descending |-> StrV("yes")],
     [bogus |-> IntV(1)]}

LookupBackends ==
    {[kind |-> "honest", total |-> MaxRows, script |-> <<>>, norows |-> FALSE],
     [kind |-> "honest", total |-> 0, script |-> <<>>, norows |-> TRUE],
     [kind |-> "scripted", total |-> 0, script |-> <<1>>, norows |-> FALSE]}

InitLookup ==
    \E fixed \in LookupOptionSets, psarg \in PageSizeArgs, r \in LookupBackends :
        Construct(DictUnion(fixed, psarg), r)

NextLookup ==
    \/ \E key \in Keys : GetItem(key)
    \/ Forget

SpecLookup == InitLookup /\ [][NextLookup]_vars

(***************************************************************************)
(* Lookups and iterations on one Index, in any order.                      *)
(***************************************************************************)
MixedKeys ==
    {StrV("2013"),
     IntV(7),
     SliceV(StrV("2013"), StrV("2014")),
     SliceV(IntV(1), IntV(3)),
     SliceV(NoneV, IntV(2)),
     SliceV(StrV("2013"), IntV(2)),
     SliceV(NoneV, NoneV)}

NextIndex ==
    \/ \E i \in Iters : Iter(i)
    \/ \E i \in Iters : Pull(i)
    \/ \E i \in Iters : Abandon(i)
    \/ \E key \in MixedKeys : GetItem(key)
    \/ Forget

SpecIndex == InitLookup /\ [][NextIndex]_vars

(***************************************************************************)
(* Properties of the requests and of the lookups.                          *)
(***************************************************************************)
\* the only outcome of the translator on a mapping it accepts
Translated(opts) == (CHOOSE t \in python_to_couch(opts) : TRUE).result

Accepted(opts) == \A t \in python_to_couch(opts) : t.ok

Looked == lookup.state # "idle"

\* the lookup's own keywords do not clash with the fixed options
LookupCalls == Looked /\ GetItemKeywords(lookup.key).interpreted
                      /\ ~DuplicateKeyword(GetItemKeywords(lookup.key).kw, options)

\* the k-th request of an iteration, before any translation
RawPageRequest(k) ==
    DictUnion([limit |-> page_size, skip |-> IntV((k - 1) * page_size.val)], options)

OneCallWith(kw) ==
    /\ Len(lookup.calls) = 1
    /\ lookup.calls[1].req = DictUnion(kw, options)
    /\ DOMAIN lookup.calls[1].req = DOMAIN kw \cup DOMAIN options
    /\ \/ lookup.state = "returned" /\ lookup.ret = lookup.calls[1].rows
       \/ lookup.state = "raised" /\ lookup.exc = "KeyError" /\ ref.norows

Rejected ==
    /\ lookup.state = "raised"
    /\ lookup.exc = "CloudantArgumentError"
    /\ lookup.calls = <<>>

\* C7 as stated (fixed options without key): a key that is a string, an
\* integer, a list or a tuple is looked up with one call carrying key and
\* the fixed options.
CE_C7_ScalarOrSequenceKey ==
    (/\ Looked
     /\ lookup.key.kind \in {"str", "unicode", "int", "list", "tuple"}
     /\ "key" \notin DOMAIN options) =>
        OneCallWith([n \in {"key"} |-> lookup.key])

\* C7 amended: a key that is a string or a list is looked up, when the
\* fixed options hold no key, with one call carrying key and the fixed
\* options and nothing else, and the rows of the response are returned
\* unchanged; a key that is an integer or a tuple is rejected with
\* CloudantArgumentError and no call.
Thm_C7_StringOrListKey ==
    /\ (/\ Looked
        /\ lookup.key.kind \in {"str", "unicode", "list"}
        /\ "key" \notin DOMAIN options) =>
           OneCallWith([n \in {"key"} |-> lookup.key])
    /\ (Looked /\ lookup.key.kind \in {"int", "bool", "tuple"}) => Rejected

Wit_C7_ListKeyReturned ==
    /\ lookup.state = "returned"
    /\ lookup.key = ListV(<<"2013", "10">>)
    /\ options = [include_docs |-> BoolV(TRUE)]
    /\ Len(lookup.ret) = MaxRows

IsSliceOf(kinds) ==
    /\ Looked
    /\ lookup.key.kind = "slice"
    /\ lookup.key.val[1].kind \in kinds \cup {"none"}
    /\ lookup.key.val[2].kind \in kinds \cup {"none"}

Start == lookup.key.val[1]

Stop == lookup.key.val[2]

NoClash(names) == \A n \in names : n \notin DOMAIN options

BothAbsent == Start.kind = "none" /\ Stop.kind = "none"

\* the keywords startkey = start and endkey = stop, each if and only if the
\* bound is present
ExpectedKeyRange ==
    [n \in (IF Start.kind # "none" THEN {"startkey"} ELSE {})
            \cup (IF Stop.kind # "none" THEN {"endkey"} ELSE {}) |->
        IF n = "startkey" THEN Start ELSE Stop]

\* C8 as stated (fixed options without startkey and endkey): a slice whose
\* present bounds are strings, lists or tuples is answered by one call with
\* startkey and endkey for the present bounds.
CE_C8_StringOrSequenceBounds ==
    (/\ IsSliceOf({"str", "unicode", "list", "tuple"})
     /\ ~BothAbsent
     /\ NoClash({"startkey", "endkey"})) =>
        OneCallWith(ExpectedKeyRange)

\* C8 amended: a slice whose present bounds are strings or lists, at least
\* one present, is answered, when the fixed options hold neither startkey
\* nor endkey, by one call with startkey = start iff start is present and
\* endkey = stop iff stop is present beside the fixed options, with no skip
\* or limit added, and returns the rows of the response; a slice with a
\* tuple bound is rejected with CloudantArgumentError and no call.
Thm_C8_StringOrListBounds ==
    /\ (/\ IsSliceOf({"str", "unicode", "list"})
        /\ ~BothAbsent
        /\ NoClash({"startkey", "endkey"})) =>
           OneCallWith(ExpectedKeyRange)
    /\ (/\ Looked
        /\ lookup.key.kind = "slice"
        /\ "tuple" \in {Start.kind, Stop.kind}) => Rejected

Wit_C8_OnlyStopPresent ==
    /\ lookup.state = "returned"
    /\ lookup.key = SliceV(NoneV, ListV(<<"2013", "10">>))
    /\ options = [include_docs |-> BoolV(TRUE)]
    /\ DOMAIN lookup.calls[1].req = {"endkey", "include_docs"}

\* C9: a slice whose present bounds are ints is answered, when the fixed
\* options hold none of the keywords the slice supplies, by one call with
\* skip = start and limit = stop - start (negative differences included)
\* when both are present, skip = start alone when only start is, limit =
\* stop alone when only stop is, and the fixed options alone when neither is.
Thm_C9_PositionalWindow ==
    IsSliceOf({"int"}) =>
        /\ (Start.kind = "int" /\ Stop.kind = "int" /\ NoClash({"skip", "limit"})) =>
               OneCallWith([skip |-> Start, limit |-> IntV(Stop.val - Start.val)])
        /\ (Start.kind = "int" /\ Stop.kind = "none" /\ NoClash({"skip"})) =>
               OneCallWith([skip |-> Start])
        /\ (Start.kind = "none" /\ Stop.kind = "int" /\ NoClash({"limit"})) =>
               OneCallWith([limit |-> Stop])
        /\ BothAbsent =>
               /\ OneCallWith(EmptyDict)
               /\ lookup.calls[1].req = options

Wit_C9_NegativeLimit ==
    /\ lookup.state = "returned"
    /\ lookup.key = SliceV(IntV(3), IntV(1))
    /\ lookup.calls[1].req["limit"] = IntV(-2)
    /\ lookup.calls[1].req["skip"] = IntV(3)

KeyLike == {"str", "unicode", "list", "tuple"}

IntLike == {"int", "bool"}

\* C10: a slice with one bound a string or sequence and the other an
\* integer, or with a bound that is neither (nor absent), is rejected with
\* CloudantArgumentError and the fetch callable is not invoked.
Thm_C10_MixedBoundsRejected ==
    (/\ Looked
     /\ lookup.key.kind = "slice"
     /\ \/ Start.kind \in KeyLike /\ Stop.kind \in IntLike
        \/ Start.kind \in IntLike /\ Stop.kind \in KeyLike
        \/ Start.kind \notin KeyLike \cup IntLike \cup {"none"}
        \/ Stop.kind \notin KeyLike \cup IntLike \cup {"none"}) =>
        Rejected

Wit_C10_StringAndInt ==
    /\ lookup.key = SliceV(StrV("2013"), IntV(2))
    /\ Rejected

(***************************************************************************)
(* The translator on its own: python_to_couch applied to option mappings.  *)
(***************************************************************************)
MaxEntries == 2     \* a translated mapping holds at most MaxEntries entries

OptionNames == DOMAIN ARG_TYPES \cup {"bogus", "page_size"}

OptionValues ==
    {NoneV, BoolV(TRUE), BoolV(FALSE), IntV(0), IntV(7), LongV(1), FloatV(1),
     StrV("ok"), StrV("update_after"), StrV("nope"), UnicodeV("ok"), StrV("2013"),
     ListV(<<>>), ListV(<<"2013", "10">>), TupleV(<<"2013", "11">>),
     ListV(<<"2013", Unserializable>>), XrangeV(3)}

\* entries combined into mappings of more than one entry
CombinedEntries ==
    {<<"descending", BoolV(TRUE)>>, <<"descending", StrV("yes")>>,
     <<"bogus", IntV(1)>>, <<"page_size", IntV(10)>>,
     <<"stale", StrV("ok")>>, <<"stale", StrV("nope")>>,
     <<"key", StrV("2013")>>, <<"key", XrangeV(3)>>,
     <<"skip", IntV(7)>>, <<"limit", NoneV>>,
     <<"endkey", TupleV(<<"2013", "11">>)>>}

DictOf(entries) ==
    [n \in {e[1] : e \in entries} |-> (CHOOSE e \in entries : e[1] = n)[2]]

OptionMappings ==
    {EmptyDict}
    \cup {DictOf({<<n, v>>}) : n \in OptionNames, v \in OptionValues}
    \cup {DictOf(es) : es \in {x \in SUBSET CombinedEntries :
                                   /\ Cardinality(x) \in 2..MaxEntries
                                   /\ \A e, f \in x : e[1] = f[1] => e = f}}

\* one call python_to_couch(opts)
Translate(opts) ==
    /\ xlate.state = "idle"
    /\ \E t \in python_to_couch(opts) :
           xlate' = [state |-> IF t.ok THEN "returned" ELSE "raised",
                     input |-> opts, out |-> t]
    /\ UNCHANGED <<options, page_size, ref, gen, lookup, sessions>>

\* the caller drops the outcome
Discard ==
    /\ xlate.state # "idle"
    /\ xlate' = NoTranslation
    /\ UNCHANGED <<options, page_size, ref, gen, lookup, sessions>>

InitTranslate ==
    Construct(EmptyDict, [kind |-> "honest", total |-> 0, script |-> <<>>, norows |-> FALSE])

NextTranslate ==
    \/ \E opts \in OptionMappings : Translate(opts)
    \/ Discard

SpecTranslate == InitTranslate /\ [][NextTranslate]_vars

Translating == xlate.state # "idle"

Raised(site) == xlate.state = "raised" /\ xlate.out.error.site = site

NoMappingReturned == xlate.state = "raised" /\ ~xlate.out.ok /\ xlate.out.result = EmptyDict

UnknownNames(opts) == DOMAIN opts \ DOMAIN ARG_TYPES

\* C11 as stated: a mapping with a name outside the catalog fails with the
\* invalid-argument error naming such a key and returns no mapping, whatever
\* the other entries are.
CE_C11_UnknownNameAlwaysInvalidOption ==
    (Translating /\ UnknownNames(xlate.input) # {}) =>
        /\ NoMappingReturned
        /\ Raised("invalid_argument")
        /\ xlate.out.error.key \in UnknownNames(xlate.input)

\* an entry that would itself pass every check of the loop
EntryPasses(k, v) ==
    /\ k \in DOMAIN ARG_TYPES
    /\ IsInstanceAny(v, ARG_TYPES[k])
    /\ k = "stale" => v.val \in {"ok", "update_after"}
    /\ v.kind \in {"none", "bool", "int", "str", "unicode"}
       \/ (v.kind \in {"list", "tuple"} /\ \A j \in DOMAIN v.val : v.val[j] # Unserializable)

\* C11 (amended): a mapping with a name outside the catalog always fails with
\* CloudantArgumentError and returns no mapping; the error is the
\* invalid-argument one, naming a key outside the catalog, whenever every
\* entry with a catalog name would pass on its own.  When another entry is
\* invalid too, the error raised is that of whichever the loop visits first.
Thm_C11_UnknownNameFails ==
    (Translating /\ UnknownNames(xlate.input) # {}) =>
        /\ NoMappingReturned
        /\ xlate.out.error.exc = "CloudantArgumentError"
        /\ \/ /\ Raised("invalid_argument")
              /\ xlate.out.error.key \in UnknownNames(xlate.input)
           \/ /\ xlate.out.error.site # "invalid_argument"
              /\ \E k \in DOMAIN xlate.input \ UnknownNames(xlate.input) :
                     ~EntryPasses(k, xlate.input[k])
        /\ (\A k \in DOMAIN xlate.input \ UnknownNames(xlate.input) :
                EntryPasses(k, xlate.input[k])) =>
               Raised("invalid_argument")

Wit_C11_UnknownNameWithValidEntry ==
    /\ xlate.input = DictOf({<<"bogus", IntV(1)>>, <<"descending", BoolV(TRUE)>>})
    /\ Raised("invalid_argument")
    /\ xlate.out.error.key = "bogus"
    /\ xlate.out.partial = [descending |-> StrV("true")]

\* the value kinds the option catalog is stated in
SemanticKind(v) ==
    CASE v.kind = "bool" -> "boolean"
      [] v.kind = "int" -> "integer"
      [] v.kind \in {"str", "unicode"} -> "string"
      [] v.kind \in {"list", "tuple"} -> "ordered-sequence"
      [] v.kind = "none" -> "none"
      [] OTHER -> "other"

\* the accepted kinds ARG_TYPES declares, read as kinds of value
DeclaredKinds ==
    [descending |-> {"boolean"},
     endkey |-> {"string", "ordered-sequence"},
     endkey_docid |-> {"string"},
     group |-> {"boolean"},
     group_level |-> {"string"},
     include_docs |-> {"boolean"},
     inclusive_end |-> {"boolean"},
     key |-> {"integer", "string", "ordered-sequence"},
     limit |-> {"integer", "none"},
     reduce |-> {"boolean"},
     skip |-> {"integer", "none"},
     stale |-> {"string"},
     startkey |-> {"string", "ordered-sequence"},
     startkey_docid |-> {"string"}]

KindMismatch(k, v) ==
    /\ k \in DOMAIN DeclaredKinds
    /\ SemanticKind(v) # "other"
    /\ SemanticKind(v) \notin DeclaredKinds[k]

\* C12: a value of a catalog option whose kind (boolean, integer, string,
\* ordered sequence, none) is not among the kinds declared for the name makes
\* the translation fail with the not-instance error naming the key, and no
\* wire value is produced for it; a boolean for skip, limit or key included.
CE_C12_KindMismatchRejected ==
    \A k \in DOMAIN xlate.input :
        (Translating /\ KindMismatch(k, xlate.input[k])) =>
            /\ xlate.state = "raised"
            /\ k \notin DOMAIN xlate.out.partial
            /\ (\A j \in DOMAIN xlate.input \ {k} : EntryPasses(j, xlate.input[j])) =>
                   /\ Raised("not_instance")
                   /\ xlate.out.error.key = k

OthersPass(k) == \A j \in DOMAIN xlate.input \ {k} : EntryPasses(j, xlate.input[j])

\* C13: a string given for stale is accepted only when it is exactly "ok" or
\* "update_after"; any other string fails with the invalid-stale error
\* although it passed the type check, before a wire value is stored for stale.
Thm_C13_StaleOkOrUpdateAfter ==
    (/\ Translating
     /\ "stale" \in DOMAIN xlate.input
     /\ xlate.input["stale"].kind \in {"str", "unicode"}) =>
        LET v == xlate.input["stale"]
        IN  /\ IsInstanceAny(v, ARG_TYPES["stale"])
            /\ v.val \notin {"ok", "update_after"} =>
                   /\ NoMappingReturned
                   /\ "stale" \notin DOMAIN xlate.out.partial
                   /\ OthersPass("stale") =>
                          /\ Raised("invalid_stale")
                          /\ xlate.out.error.exc = "CloudantArgumentError"
                          /\ xlate.out.error.value = v.val
            /\ (v.val \in {"ok", "update_after"} /\ OthersPass("stale")) =>
                   /\ xlate.state = "returned"
                   /\ xlate.out.result["stale"] = StrV("\"" \o v.val \o "\"")

Wit_C13_StaleNopeRaised ==
    /\ xlate.input = [stale |-> StrV("nope")]
    /\ Raised("invalid_stale")
    /\ xlate.out.partial = EmptyDict

\* the JSON text of the arrays among OptionValues and CombinedEntries
ArrayText(q) ==
    CASE q = <<>> -> "[]"
      [] q = <<"2013", "10">> -> "[\"2013\", \"10\"]"
      [] q = <<"2013", "11">> -> "[\"2013\", \"11\"]"
      [] OTHER -> "?"

ExpectedWire(v) ==
    CASE v.kind = "bool" -> [kind |-> "str", val |-> IF v.val THEN "true" ELSE "false"]
      [] v.kind \in {"str", "unicode"} -> [kind |-> "str", val |-> "\"" \o v.val \o "\""]
      [] v.kind \in {"list", "tuple"} -> [kind |-> "str", val |-> ArrayText(v.val)]
      [] OTHER -> v

\* C14: every entry the translation has converted holds the wire value fixed
\* by the kind of its value: 'true' / 'false' for a boolean, the JSON-quoted
\* text for a string, the JSON array in the same order for a list or tuple,
\* and the value itself for an integer or none.
Thm_C14_WireValueByKind ==
    Translating =>
        \A k \in DOMAIN xlate.out.partial :
            /\ k \in DOMAIN xlate.input
            /\ xlate.out.partial[k] = ExpectedWire(xlate.input[k])
            /\ xlate.input[k].kind = "bool" =>
                   /\ xlate.out.partial[k].kind = "str"
                   /\ xlate.out.partial[k].val \in {"true", "false"}
            /\ xlate.input[k].kind \in {"int", "none"} =>
                   xlate.out.partial[k] = xlate.input[k]

Wit_C14_BooleanAndTuple ==
    /\ xlate.state = "returned"
    /\ xlate.input = [descending |-> BoolV(TRUE), endkey |-> TupleV(<<"2013", "11">>)]
    /\ xlate.out.result =
           [descending |-> StrV("true"), endkey |-> StrV("[\"2013\", \"11\"]")]

TypeCorrect(opts) ==
    \A k \in DOMAIN opts : k \in DOMAIN ARG_TYPES /\ IsInstanceAny(opts[k], ARG_TYPES[k])

\* C15 as stated: a mapping of catalog names with type-correct values is
\* translated, and the result has exactly the names of the input.
CE_C15_TypeCorrectSucceeds ==
    (Translating /\ TypeCorrect(xlate.input)) =>
        /\ xlate.state = "returned"
        /\ DOMAIN xlate.out.result = DOMAIN xlate.input

\* C15 (amended): a mapping of catalog names with type-correct values, whose
\* stale value (if any) is "ok" or "update_after" and whose sequence values
\* are lists or tuples of serialisable elements, is translated, and the
\* result has exactly the names of the input, one entry each.
Thm_C15_ValidMappingSucceeds ==
    (Translating /\ \A k \in DOMAIN xlate.input : EntryPasses(k, xlate.input[k])) =>
        /\ xlate.state = "returned"
        /\ DOMAIN xlate.out.result = DOMAIN xlate.input
        /\ Cardinality(DOMAIN xlate.out.result) = Cardinality(DOMAIN xlate.input)

Wit_C15_TwoEntriesTranslated ==
    /\ xlate.state = "returned"
    /\ xlate.input = [key |-> StrV("2013"), skip |-> IntV(7)]
    /\ DOMAIN xlate.out.result = {"key", "skip"}

\* the entry passes the name, type and stale checks
PassesValidation(k, v) ==
    /\ k \in DOMAIN ARG_TYPES
    /\ IsInstanceAny(v, ARG_TYPES[k])
    /\ k = "stale" => v.val \in {"ok", "update_after"}

\* the converter of the value is missing or raises
FailsToConvert(v) ==
    \/ v.kind = "xrange"
    \/ v.kind \in {"list", "tuple"} /\ \E j \in DOMAIN v.val : v.val[j] = Unserializable

\* C16: when the conversion of a validated value fails (no converter for its
\* concrete type included), the translation raises CloudantArgumentError
\* naming the key and carrying the text of the cause; no exception of
\* another class leaves the function and no mapping is returned.
Thm_C16_ConversionFailureWrapped ==
    /\ xlate.state = "raised" =>
           /\ xlate.out.error.exc = "CloudantArgumentError"
           /\ NoMappingReturned
    /\ \A k \in DOMAIN xlate.input :
           (/\ Translating
            /\ PassesValidation(k, xlate.input[k])
            /\ FailsToConvert(xlate.input[k])) =>
               /\ NoMappingReturned
               /\ k \notin DOMAIN xlate.out.partial
               /\ OthersPass(k) =>
                      /\ Raised("error_converting")
                      /\ xlate.out.error.key = k
                      /\ xlate.out.error.cause # ""

Wit_C16_NoConverterForXrange ==
    /\ xlate.input = [key |-> XrangeV(3), skip |-> IntV(7)]
    /\ Raised("error_converting")
    /\ xlate.out.error.key = "key"
    /\ xlate.out.error.cause = "'NoneType' object is not callable"
    /\ xlate.out.partial = [skip |-> IntV(7)]

\* C17: no step of a lookup or of a lazy iteration, whether it returns,
\* raises or is abandoned, changes the fixed options, the page size or the
\* reference to the fetch callable of the Index.
Thm_C17_IndexReadOnlyAfterConstruction ==
    [][options' = options /\ page_size' = page_size /\ ref' = ref]_vars

Wit_C17_CompletedAbandonedAndFailed ==
    /\ options = [include_docs |-> BoolV(TRUE)]
    /\ gen[1].pc = "done" /\ Len(gen[1].calls) >= 2
    /\ gen[2].pc = "closed" /\ Len(gen[2].yielded) >= 1
    /\ lookup.state = "raised"
    /\ lookup.key = SliceV(StrV("2013"), IntV(2))

\* C18: the page size of a constructed Index is a positive integer, so every
\* fetch of a lazy iteration carries limit >= 1 and each fetch of an
\* activation asks for a skip at least 1 above the one before.
CE_C18_PositivePageSize ==
    /\ page_size.kind = "int"
    /\ page_size.val >= 1
    /\ \A i \in Iters :
           \A k \in 1..Len(gen[i].calls) :
               /\ gen[i].calls[k].req["limit"].val >= 1
               /\ k > 1 => gen[i].calls[k].req["skip"].val
                               >= gen[i].calls[k - 1].req["skip"].val + 1

\* C19: within one activation the k-th fetch (counted from 0) is issued with
\* limit = page_size and skip = k * page_size next to every fixed option
\* unchanged, whatever the earlier pages held; page_size is not among the
\* keywords.
Thm_C19_KthFetchKeywords ==
    \A i \in Iters :
        \A k \in 1..Len(gen[i].calls) :
            LET req == gen[i].calls[k].req
            IN  /\ DOMAIN req = DOMAIN options \cup {"limit", "skip"}
                /\ req["limit"] = page_size
                /\ req["skip"] = [kind |-> "int", val |-> (k - 1) * page_size.val]
                /\ \A n \in DOMAIN options : req[n] = options[n]
                /\ "page_size" \notin DOMAIN req

Wit_C19_ThirdFetchAfterIrregularPages ==
    /\ options = [include_docs |-> BoolV(TRUE)]
    /\ page_size = IntV(MaxPageSize)
    /\ ref.kind = "scripted"
    /\ Len(gen[1].calls) = 3
    /\ Len(gen[1].calls[1].rows) = 1
    /\ Len(gen[1].calls[2].rows) = MaxPageSize
    /\ gen[1].calls[3].req =
           [include_docs |-> BoolV(TRUE), limit |-> IntV(MaxPageSize),
            skip |-> IntV(2 * MaxPageSize)]

(***************************************************************************)
(* One lazy iteration driven by a consumer that keeps pulling: the for     *)
(* loop of a caller calls next() again after every row.  Pulls stop once   *)
(* an activation has made MaxFetches fetches, which only a backend without *)
(* an empty page reaches.                                                  *)
(***************************************************************************)
MaxFetches == MaxRows + MaxScript

EndlessBackends ==
    {[kind |-> "endless", total |-> 0, script |-> <<>>, norows |-> FALSE]}

\* for row in index: ...
ConsumerPull ==
    /\ Len(gen[1].calls) < MaxFetches
    /\ Pull(1)

InitConsume ==
    \E fixed \in IterOptionSets, psarg \in PageSizeArgs, r \in Backends \cup EndlessBackends :
        Construct(DictUnion(fixed, psarg), r)

NextConsume ==
    \/ Iter(1)
    \/ ConsumerPull

SpecConsume == InitConsume /\ [][NextConsume]_vars /\ WF_vars(ConsumerPull)

FiniteAndHonest == ref.kind = "honest"

\* C20: an iteration whose consumer keeps pulling ends when the backend is
\* finite and honours skip and limit and page_size >= 1; it ends only on a
\* page without rows (or a response without a rows field), with no fetch
\* after that page, and never against a backend that has no empty page.
Thm_C20_EndsOnEmptyPageOnly ==
    /\ [](gen[1].pc = "done" =>
              /\ gen[1].calls # <<>>
              /\ gen[1].calls[Len(gen[1].calls)].rows = <<>>
              /\ \A k \in 1..(Len(gen[1].calls) - 1) : gen[1].calls[k].rows # <<>>)
    /\ [](ref.kind = "endless" => gen[1].pc # "done")
    /\ [][(gen[1].pc = "done" /\ gen'[1].pc # "created") => gen'[1] = gen[1]]_vars
    /\ (/\ gen[1].pc = "created"
        /\ FiniteAndHonest
        /\ page_size.val >= 1
        /\ {"skip", "limit"} \cap DOMAIN options = {}) ~> (gen[1].pc = "done")

Wit_C20_HonestBackendDrained ==
    /\ ref = [kind |-> "honest", total |-> MaxRows, script |-> <<>>, norows |-> FALSE]
    /\ page_size = IntV(1)
    /\ gen[1].pc = "done"
    /\ Len(gen[1].calls) = MaxRows + 1
    /\ Len(gen[1].yielded) = MaxRows

(***************************************************************************)
(* Lookups on an Index whose fixed options hold a name of the lookup.      *)
(***************************************************************************)
IfPresent(name, v) == IF v.kind = "none" THEN {} ELSE {name}

\* the keyword names the latest lookup passes next to the fixed options
SuppliedNames ==
    IF lookup.key.kind \in {"str", "unicode", "list"} THEN {"key"}
    ELSE IF lookup.key.kind # "slice" THEN {}
    ELSE IF /\ Start.kind \in {"none", "str", "unicode", "list"}
            /\ Stop.kind \in {"none", "str", "unicode", "list"}
    THEN IfPresent("startkey", Start) \cup IfPresent("endkey", Stop)
    ELSE IF Start.kind \in {"none", "int", "bool"} /\ Stop.kind \in {"none", "int", "bool"}
    THEN IfPresent("skip", Start) \cup IfPresent("limit", Stop)
    ELSE {}

Clashes == Looked /\ SuppliedNames \cap DOMAIN options # {}

\* C21: a lookup that passes a keyword the fixed options already hold fails
\* with TypeError (a keyword given twice), not CloudantArgumentError, before
\* the fetch callable runs, so no request carries the lookup's value in
\* place of the fixed one; the lookup leaves options, page size and the
\* reference to the callable as they were.
Thm_C21_ClashIsDuplicateKeywordError ==
    /\ [](Clashes =>
              /\ lookup.state = "raised"
              /\ lookup.exc = "TypeError"
              /\ lookup.calls = <<>>
              /\ lookup.ret = <<>>)
    /\ [][Clashes' => (options' = options /\ page_size' = page_size /\ ref' = ref)]_vars

Wit_C21_RangeOverFixedStartkey ==
    /\ options = [startkey |-> StrV("2012")]
    /\ lookup.key = SliceV(StrV("2013"), StrV("2014"))
    /\ lookup.state = "raised"
    /\ lookup.exc = "TypeError"
    /\ lookup.calls = <<>>

(***************************************************************************)
(* The context helpers cloudant() and couchdb(): generators wrapped by     *)
(* contextlib.contextmanager.  A with-statement over one of them is a      *)
(* record of                                                               *)
(*   helper, client - the helper called and the class of the object c      *)
(*   pc      - "body" (suspended at the yield, the with-body runs),        *)
(*             "exited" (the statement completed), "propagated" (the       *)
(*             body's exception left the statement), "connect_raised",     *)
(*             "disconnect_raised"                                         *)
(*   events  - the calls on c and the steps of the body, in order          *)
(*   exc     - the exception that left the statement, "" when none         *)
(* Statements run one after the other.                                     *)
(***************************************************************************)
MaxWith == 2        \* at most MaxWith with-statements are run
MaxBodySteps == 2   \* a with-body takes at most MaxBodySteps steps before it ends

Helpers == {"cloudant", "couchdb"}

\* lines 24 and 39
ClientClass(h) == IF h = "cloudant" THEN "Cloudant" ELSE "CouchDB"

\* c.connect() and c.disconnect() belong to the account module: a call
\* either returns or raises
CallOutcomes == {"returns", "raises"}

\* __enter__: the generator runs from its start to the yield (lines 24-26,
\* 39-41)
EnterHelper(h, outcome) ==
    [helper |-> h, client |-> ClientClass(h), events |-> <<"connect">>,
     pc |-> IF outcome = "returns" THEN "body" ELSE "connect_raised",
     exc |-> IF outcome = "returns" THEN "" ELSE "ConnectError"]

\* __exit__ without an exception: the generator resumes after the yield and
\* runs to its end (lines 27, 42)
ResumeAfterYield(w, outcome) ==
    [w EXCEPT !.events = Append(@, "disconnect"),
              !.pc = IF outcome = "returns" THEN "exited" ELSE "disconnect_raised",
              !.exc = IF outcome = "returns" THEN "" ELSE "DisconnectError"]

ThrowAtYieldFinally(w) ==
    [w EXCEPT !.events = Append(@, "disconnect"), !.pc = "propagated", !.exc = "BodyError"]

\* __exit__ with the body's exception: it is thrown into the generator at
\* the yield, which no try statement encloses (lines 26, 41), so it leaves
\* the generator and the with-statement
ThrowAtYield(w) == [w EXCEPT !.pc = "propagated", !.exc = "BodyError"]

Current == sessions[Len(sessions)]

InBody == sessions # <<>> /\ Current.pc = "body"

BodySteps(w) == Cardinality({j \in DOMAIN w.events : w.events[j] = "body"})

\* with cloudant(user, passwd) as c:   /   with couchdb(user, passwd) as c:
With(h) ==
    /\ Len(sessions) < MaxWith
    /\ ~InBody
    /\ \E outcome \in CallOutcomes : sessions' = Append(sessions, EnterHelper(h, outcome))
    /\ UNCHANGED <<options, page_size, ref, gen, lookup, xlate>>

\* one statement of the with-body returns
BodyStep ==
    /\ InBody
    /\ BodySteps(Current) < MaxBodySteps
    /\ sessions' = [sessions EXCEPT ![Len(sessions)].events = Append(@, "body")]
    /\ UNCHANGED <<options, page_size, ref, gen, lookup, xlate>>

\* the with-body reaches its end
BodyCompletes ==
    /\ InBody
    /\ \E outcome \in CallOutcomes :
           sessions' = [sessions EXCEPT ![Len(sessions)] = ResumeAfterYield(@, outcome)]
    /\ UNCHANGED <<options, page_size, ref, gen, lookup, xlate>>

\* a statement of the with-body raises
BodyRaises ==
    /\ InBody
    /\ sessions' = [sessions EXCEPT ![Len(sessions)] =
                        ThrowAtYield([@ EXCEPT !.events = Append(@, "raise")])]
    /\ UNCHANGED <<options, page_size, ref, gen, lookup, xlate>>

InitContext ==
    Construct(EmptyDict, [kind |-> "honest", total |-> 0, script |-> <<>>, norows |-> FALSE])

NextContext ==
    \/ \E h \in Helpers : With(h)
    \/ BodyStep
    \/ BodyCompletes
    \/ BodyRaises

SpecContext == InitContext /\ [][NextContext]_vars

Times(w, event) == Cardinality({j \in DOMAIN w.events : w.events[j] = event})

BodyEvents == {"body", "raise"}

\* C22: in a with-statement over cloudant() or couchdb(), connect is called
\* exactly once, before anything of the body; disconnect is called exactly
\* once, after the body, when the body completes without raising, and not
\* at all otherwise; when the body raises, its exception leaves the
\* statement and the last call on the session is the connect.
Thm_C22_DisconnectOnlyAfterNormalBody ==
    \A n \in DOMAIN sessions :
        LET w == sessions[n]
        IN  /\ Times(w, "connect") = 1
            /\ w.events[1] = "connect"
            /\ Times(w, "disconnect") <= 1
            /\ Times(w, "disconnect") = 1 <=>
                   (w.pc \in {"exited", "disconnect_raised"} /\ Times(w, "raise") = 0)
            /\ Times(w, "disconnect") = 1 =>
                   /\ w.events[Len(w.events)] = "disconnect"
                   /\ \A j \in 2..(Len(w.events) - 1) : w.events[j] = "body"
            /\ Times(w, "raise") = 1 =>
                   /\ w.pc = "propagated"
                   /\ w.exc = "BodyError"
                   /\ Times(w, "disconnect") = 0
                   /\ \A j \in 2..Len(w.events) : w.events[j] \in BodyEvents
            /\ w.pc = "propagated" => Times(w, "raise") = 1
            /\ w.pc = "connect_raised" => w.events = <<"connect">>

Wit_C22_RaisedThenCompleted ==
    /\ Len(sessions) = 2
    /\ sessions[1].helper = "cloudant"
    /\ sessions[1].pc = "propagated"
    /\ sessions[1].events = <<"connect", "body", "raise">>
    /\ sessions[2].helper = "couchdb"
    /\ sessions[2].pc = "exited"
    /\ sessions[2].events = <<"connect", "body", "disconnect">>
=============================================================================
